---------------------------- MODULE Spec2Model ----------------------------
(***************************************************************************)
(* Model of examples/shadows/world.rs: the World orchestrator of the       *)
(* shadow-mapping example.  World::render records one depth-only sub-pass  *)
(* per light, then one forward (or shadow-debug) pass, on one command      *)
(* encoder, submits it and presents the surface image.  World::resize      *)
(* re-uploads the default camera matrix and recreates forward_depth.       *)
(*                                                                         *)
(* render is one action.  Everything it does, in program order, is the     *)
(* sequence `trace`: queue writes, encoder commands, surface acquisition,  *)
(* submit, present, and a final "panic" event when the call unwinds.       *)
(* `trace` holds the events of the call that has just run; the call's      *)
(* locals (encoder, frame) are dropped when it returns (RenderReturn).     *)
(*                                                                         *)
(* Matrices are symbolic values: two matrices are equal iff they are built *)
(* the same way from equal arguments.  Aspect ratios and half extents are  *)
(* exact rationals in lowest terms (<<numerator, denominator>>); for the   *)
(* small integers used here the f32 divisions of the code are exact up to  *)
(* the same rounding on both sides of every comparison made below.         *)
(***************************************************************************)
EXTENDS Integers, Sequences, FiniteSets, TLC

\* Bounds of the model.
MaxLights   == 2    \* light sets of size 1..MaxLights
MaxEntities == 2    \* entity sets of size 0..MaxEntities
MaxDim      == 2    \* surface width and height range over 1..MaxDim
MaxSelector == 3    \* camera_position ranges over 0..MaxSelector
MaxLayer    == 1    \* layer_number ranges over 0..MaxLayer

VARIABLES
    entities,                \* World.entities.entities, in sequence order
    lights,                  \* World.lights.lights, indexed from 0 as in the code
    show_shadows,            \* World.show_shadows
    layer_number,            \* World.layer_number
    camera_position,         \* World.camera_position
    forward_depth,           \* World.forward_depth
    config,                  \* context.config (width, height)
    projection_view_buffer,  \* content of forward_pass.projection_view_buffer
    trace,                   \* events of the render call that has just run
    pc,                      \* "idle", "rendered" (render ran to its end), "panicked"
    shown,                   \* history (SpecToggle only): <<show_shadows>> of the
                             \* last render call that returned
    resize_due,              \* history (SpecResizeDue only): the surface was
                             \* reconfigured and World::resize not called since
    first_frame              \* history (SpecFrames only): <<selection, shadow pass>>
                             \* of the first render call, <<>> before it

vars == <<entities, lights, show_shadows, layer_number, camera_position,
          forward_depth, config, projection_view_buffer, trace, pc, shown,
          resize_due, first_frame>>

\* The history variables other than `shown`.
histories == <<resize_due, first_frame>>

world_data == <<entities, lights>>
selection  == <<show_shadows, layer_number, camera_position>>

-----------------------------------------------------------------------------
\* Exact rational arithmetic for the f32 quotients of the code.

RECURSIVE GCD(_, _)
GCD(a, b) == IF b = 0 THEN a ELSE GCD(b, a % b)

Ratio(n, d) == <<n \div GCD(n, d), d \div GCD(n, d)>>

\* p / q for rationals p, q
RatioDiv(p, q) == Ratio(p[1] * q[2], p[2] * q[1])

-----------------------------------------------------------------------------
\* Matrices.

\* Mat4::IDENTITY
Identity == [kind |-> "identity"]

\* get_projection_view_matrix: perspective_rh(FRAC_PI_4, aspect_ratio, 1, 200)
\* times a fixed look_at_rh; the only argument is the aspect ratio.
get_projection_view_matrix(aspect_ratio) ==
    [kind |-> "perspective_look_at", aspect |-> aspect_ratio]

\* orthographic_rh(-width, width, -height, height, 0.1, 1000) times a fixed view
OrthographicProjectView(width, height) ==
    [kind |-> "orthographic_look_at", half_width |-> width, half_height |-> height]

\* The content of a uniform buffer that nothing has written since its creation.
Unwritten == [kind |-> "unwritten"]

-----------------------------------------------------------------------------
\* The collaborators' data (Lights, Entities): only what render reads.

\* Light i of the ordered light sequence: its projection_view and its own
\* depth view, layer i of the shadow array texture.
Light(i) ==
    [position        |-> i,
     projection_view |-> [kind |-> "light_projection_view", position |-> i],
     shadow_view     |-> [texture |-> "shadow_texture", layer |-> i]]

LightSet(n) == [i \in 0 .. n - 1 |-> Light(i)]

\* Entity k (1-based position in the sequence): geometry buffers of its own
\* and its slot in the shared transform-uniform buffer.
Entity(k) == [id |-> k, uniform_offset |-> k - 1, index_count |-> 36]

EntitySet(n) == [k \in 1 .. n |-> Entity(k)]

-----------------------------------------------------------------------------
\* create_depth_texture: a new texture of the surface's size, one layer, and
\* a view of it.  The view `live` (forward_depth, or none: -1) still exists
\* while the new one is created, so the new view is another object: it gets
\* an identity that `live` does not have.

\* (mutant) width and height are swapped
create_depth_texture_swapped(cfg, live) ==
    [id     |-> (CHOOSE t \in 0 .. 1 : t # live),
     width  |-> cfg.height,
     height |-> cfg.width,
     layers |-> 1]

create_depth_texture(cfg, live) ==
    [id     |-> (CHOOSE t \in 0 .. 1 : t # live),
     width  |-> cfg.width,
     height |-> cfg.height,
     layers |-> 1]

-----------------------------------------------------------------------------
\* get_vertex_buffer_layout and the sizes it measures.

\* Rust types, as far as mem::size_of looks at them.
I8 == [kind |-> "i8"]

ArrayOf(elem, len) == [kind |-> "array", elem |-> elem, len |-> len]

StructOf(fields) == [kind |-> "struct", fields |-> fields]

\* mem::size_of: an i8 is one byte, an array is its elements one after the
\* other, and a struct whose fields all have alignment 1 has no padding.
RECURSIVE size_of(_)
size_of(ty) ==
    CASE ty.kind = "i8" -> 1
      [] ty.kind = "array" -> ty.len * size_of(ty.elem)
      [] ty.kind = "struct" ->
            IF ty.fields = <<>> THEN 0
            ELSE size_of(Head(ty.fields)) + size_of(StructOf(Tail(ty.fields)))

\* crate::cube::Vertex: two fields of four signed bytes each.
Vertex == StructOf(<< ArrayOf(I8, 4), ArrayOf(I8, 4) >>)

\* wgpu::VertexFormat::size, for the one format used.
VertexFormatSize(format) == IF format = "Sint8x4" THEN 4 * size_of(I8) ELSE 0

\* (mutant) the second attribute's offset is the size of one component
get_vertex_buffer_layout_overlapping ==
    [array_stride |-> size_of(Vertex),
     step_mode    |-> "Vertex",
     attributes   |->
        << [shader_location |-> 0, format |-> "Sint8x4", offset |-> 0],
           [shader_location |-> 1, format |-> "Sint8x4", offset |-> size_of(I8)] >>]

get_vertex_buffer_layout ==
    [array_stride |-> size_of(Vertex),
     step_mode    |-> "Vertex",
     attributes   |->
        << [shader_location |-> 0, format |-> "Sint8x4", offset |-> 0],
           [shader_location |-> 1, format |-> "Sint8x4",
            offset |-> size_of(ArrayOf(I8, 4))] >>]


-----------------------------------------------------------------------------
\* Events of a render call.

WriteBuffer(buffer, value) == [op |-> "write_buffer", buffer |-> buffer, value |-> value]

PushDebugGroup(label) == [op |-> "push_debug_group", label |-> label]

PopDebugGroup == [op |-> "pop_debug_group"]

SetPipeline(pipeline) == [op |-> "set_pipeline", pipeline |-> pipeline]

SetBindGroup(index, group, offsets) ==
    [op |-> "set_bind_group", index |-> index, group |-> group, offsets |-> offsets]

\* The drop of a RenderPass at the end of its block ends the pass.
EndRenderPass == [op |-> "end_render_pass", encoder |-> "encoder"]

Panic(message) == [op |-> "panic", message |-> message]

\* entities.update(context): each entity's transform is written into its slot
\* of the shared uniform buffer.
EntitiesUpdate ==
    [k \in 1 .. Len(entities) |->
        WriteBuffer("entity_uniform_buf", [entity |-> entities[k].id,
                                           offset |-> entities[k].uniform_offset])]

\* lights.update(context): the lights' uniform data is uploaded.
LightsUpdate ==
    << WriteBuffer("light_uniform_buf",
                   [i \in DOMAIN lights |-> lights[i].projection_view]) >>

\* One iteration of `for entity in &self.entities.entities`, drawing with the
\* given instance range <<first, end>> (first .. end).
DrawEntity(entity, instances) ==
    << SetBindGroup(1, "entity_bind_group", <<entity.uniform_offset>>),
       [op |-> "set_vertex_buffer", slot |-> 0, entity |-> entity.id],
       [op |-> "set_index_buffer", entity |-> entity.id],
       [op |-> "draw_indexed", entity |-> entity.id,
        indices |-> <<0, entity.index_count>>, base_vertex |-> 0,
        instances |-> instances] >>

\* (mutant) the loop stops one entity early
RECURSIVE DrawEntitiesButLast(_, _)
DrawEntitiesButLast(es, instances) ==
    IF Len(es) <= 1 THEN <<>>
    ELSE DrawEntity(Head(es), instances) \o DrawEntitiesButLast(Tail(es), instances)

RECURSIVE DrawEntities(_, _)
DrawEntities(es, instances) ==
    IF es = <<>> THEN <<>>
    ELSE DrawEntity(Head(es), instances) \o DrawEntities(Tail(es), instances)

\* (mutant) the depth of the target is loaded, not cleared
ShadowDepthAttachmentLoad(light) ==
    [view |-> light.shadow_view, load |-> "Load", store |-> "Store"]

\* The depth attachment and the descriptor of the sub-pass of one light.
ShadowDepthAttachment(light) ==
    [view |-> light.shadow_view, load |-> "Clear(1.0)", store |-> "Store"]

ShadowBeginRenderPass(light) ==
    [op |-> "begin_render_pass", encoder |-> "encoder",
     color_attachments |-> <<>>,
     depth_stencil_attachment |-> ShadowDepthAttachment(light)]

\* (mutant) every sub-pass draws instance 0
ShadowInstancesFirst(i) == <<0, 1>>

\* (mutant) the instance range is shifted by the layer shown in the overlay
ShadowInstancesByLayer(i) == <<i + layer_number, i + layer_number + 1>>


\* The instance range of the entity draws of the sub-pass of light i.
ShadowInstances(i) == <<i, i + 1>>

\* The body of `for (i, light) in self.lights.lights.iter().enumerate()`.
ShadowSubPass(i) ==
    << PushDebugGroup(<<"shadow pass", i, lights[i].position>>),
       [op |-> "insert_debug_marker", label |-> "render entities"],
       ShadowBeginRenderPass(lights[i]),
       SetPipeline("shadow_pass.pipeline"),
       SetBindGroup(0, "shadow_pass.bind_group", <<>>) >>
    \o DrawEntities(entities, ShadowInstances(i))
    \o << EndRenderPass, PopDebugGroup >>

RECURSIVE ShadowLoop(_)
ShadowLoop(i) ==
    IF i \notin DOMAIN lights THEN <<>>
    ELSE ShadowSubPass(i) \o ShadowLoop(i + 1)

\* Lines 71-118: the encoder and the whole shadow pass.
ShadowPassSection ==
    << [op |-> "create_command_encoder", encoder |-> "encoder"],
       PushDebugGroup(<<"shadow pass">>) >>
    \o ShadowLoop(0)
    \o << PopDebugGroup >>

-----------------------------------------------------------------------------
\* Lines 120-204: the forward (or shadow-debug) pass, submit and present.

\* frame.texture.create_view: the view of the acquired surface image, which
\* has the size of the surface configuration.
FrameView == [surface_image |-> "frame", width |-> config.width, height |-> config.height]

ForwardColorAttachment ==
    [view |-> FrameView, resolve_target |-> "None",
     load |-> <<"Clear", "r=0.1", "g=0.2", "b=0.3", "a=1.0">>, store |-> "Store"]

\* (mutant) the forward pass keeps its depth values
ForwardDepthAttachmentStore ==
    [view |-> forward_depth, load |-> "Clear(1.0)", store |-> "Store"]


ForwardDepthAttachment ==
    [view |-> forward_depth, load |-> "Clear(1.0)", store |-> "Discard"]

ForwardBeginRenderPass ==
    [op |-> "begin_render_pass", encoder |-> "encoder",
     color_attachments |-> << ForwardColorAttachment >>,
     depth_stencil_attachment |-> ForwardDepthAttachment]

\* Lines 161-163: width and height are halves of the surface's.
HalfWidth == Ratio(config.width, 2)

HalfHeight == Ratio(config.height, 2)

AspectRatio == RatioDiv(HalfWidth, HalfHeight)

\* (mutant) the layer index written is always the first layer
ShadowMaterialWritesFirstLayer ==
    << WriteBuffer("shadow_material.projection_view_buffer",
                   OrthographicProjectView(HalfWidth, HalfHeight)),
       WriteBuffer("shadow_material.layer_num_buffer", 0) >>

\* Lines 165-171: the two writes to the shadow material's uniform buffers.
ShadowMaterialWrites ==
    << WriteBuffer("shadow_material.projection_view_buffer",
                   OrthographicProjectView(HalfWidth, HalfHeight)),
       WriteBuffer("shadow_material.layer_num_buffer", layer_number) >>

\* (mutant) the light viewpoints are off by one
SelectProjectionViewShifted(selector) ==
    CASE selector = 0 -> [ok |-> TRUE, pv |-> get_projection_view_matrix(AspectRatio)]
      [] selector = 1 -> IF 1 \in DOMAIN lights
                         THEN [ok |-> TRUE, pv |-> lights[1].projection_view]
                         ELSE [ok |-> FALSE, pv |-> Identity]
      [] selector = 2 -> IF 2 \in DOMAIN lights
                         THEN [ok |-> TRUE, pv |-> lights[2].projection_view]
                         ELSE [ok |-> FALSE, pv |-> Identity]
      [] OTHER        -> [ok |-> TRUE, pv |-> Identity]

\* Lines 173-178: `match &self.camera_position`.  Indexing self.lights.lights
\* out of bounds panics: the result is then ok = FALSE and no matrix.
SelectProjectionView(selector) ==
    CASE selector = 0 -> [ok |-> TRUE, pv |-> get_projection_view_matrix(AspectRatio)]
      [] selector = 1 -> IF 0 \in DOMAIN lights
                         THEN [ok |-> TRUE, pv |-> lights[0].projection_view]
                         ELSE [ok |-> FALSE, pv |-> Identity]
      [] selector = 2 -> IF 1 \in DOMAIN lights
                         THEN [ok |-> TRUE, pv |-> lights[1].projection_view]
                         ELSE [ok |-> FALSE, pv |-> Identity]
      [] OTHER        -> [ok |-> TRUE, pv |-> Identity]

\* shadow_render_debug(pass, &self.shadow_material): binds the shadow
\* material and draws the overlay quad.
ShadowRenderDebug ==
    << SetBindGroup(0, "shadow_material.bind_group", <<>>),
       [op |-> "draw", what |-> "shadow_debug_quad"] >>

\* (mutant) the debug path uploads a matrix to the forward pass's buffer
DebugPathWritesForward ==
    << SetPipeline("shadow_material.shadow_debug_pipeline"),
       WriteBuffer("forward_pass.projection_view_buffer", Identity) >>
    \o ShadowRenderDebug

\* Lines 184-185.
DebugPath ==
    << SetPipeline("shadow_material.shadow_debug_pipeline") >> \o ShadowRenderDebug

\* Lines 188-198.
ForwardPath ==
    << SetPipeline("forward_pass.pipeline"),
       SetBindGroup(0, "forward_pass.bind_group", <<>>) >>
    \o DrawEntities(entities, <<0, 1>>)

\* (mutant) the debug path stays on for the frame after a debug frame
RenderPathSticky ==
    IF show_shadows = TRUE \/ shown = <<TRUE>> THEN DebugPath ELSE ForwardPath

\* (mutant) the overlay is drawn on top of the entities
RenderPathBoth == IF show_shadows = TRUE THEN ForwardPath \o DebugPath ELSE ForwardPath

\* Lines 182-199.
RenderPath == IF show_shadows = TRUE THEN DebugPath ELSE ForwardPath

\* (mutant) a shadow sub-pass is recorded again after the forward pass
SubmitAndPresentLateShadow ==
    << EndRenderPass, PopDebugGroup >>
    \o ShadowSubPass(0)
    \o << [op |-> "submit", encoder |-> "encoder"],
          [op |-> "present", surface_image |-> "frame"] >>

\* (mutant) the surface image is presented before the encoder is submitted
SubmitAndPresentSwapped ==
    << EndRenderPass,
       PopDebugGroup,
       [op |-> "present", surface_image |-> "frame"],
       [op |-> "submit", encoder |-> "encoder"] >>


\* (mutant) the layer index is written again once the encoder is submitted
SubmitAndPresentLateWrite ==
    << EndRenderPass,
       PopDebugGroup,
       [op |-> "submit", encoder |-> "encoder"],
       WriteBuffer("shadow_material.layer_num_buffer", layer_number),
       [op |-> "present", surface_image |-> "frame"] >>


\* Lines 201-204.
SubmitAndPresent ==
    << EndRenderPass,
       PopDebugGroup,
       [op |-> "submit", encoder |-> "encoder"],
       [op |-> "present", surface_image |-> "frame"] >>

\* (mutant) the selected matrix is not uploaded
ForwardBlockNoUpload ==
    << ForwardBeginRenderPass >>
    \o ShadowMaterialWrites
    \o (LET sel == SelectProjectionView(camera_position) IN
        IF sel.ok
        THEN RenderPath \o SubmitAndPresent
        ELSE << Panic("index out of bounds") >>)


\* Lines 130-204, once the surface image is acquired.
ForwardBlock ==
    << ForwardBeginRenderPass >>
    \o ShadowMaterialWrites
    \o (LET sel == SelectProjectionView(camera_position) IN
        IF sel.ok
        THEN << WriteBuffer("forward_pass.projection_view_buffer", sel.pv) >>
             \o RenderPath
             \o SubmitAndPresent
        ELSE << Panic("index out of bounds") >>)

\* (mutant) a failed acquisition is tried again and the frame goes on
ForwardSectionRetry(acquired) ==
    << PushDebugGroup(<<"forward rendering pass">>),
       [op |-> "get_current_texture", ok |-> acquired] >>
    \o (IF acquired
        THEN ForwardBlock
        ELSE << [op |-> "get_current_texture", ok |-> TRUE] >> \o ForwardBlock)

\* Lines 120-204.  acquired: whether get_current_texture returns Ok.
ForwardSection(acquired) ==
    << PushDebugGroup(<<"forward rendering pass">>),
       [op |-> "get_current_texture", ok |-> acquired] >>
    \o (IF acquired
        THEN ForwardBlock
        ELSE << Panic("Failed to acquire next swap chain texture") >>)

\* (mutant) the uniform data is updated after the shadow pass is recorded,
\* the lights first
RenderTraceLateUpdate(acquired) ==
    ShadowPassSection \o LightsUpdate \o EntitiesUpdate \o ForwardSection(acquired)

\* Everything one call of World::render does, in program order.
RenderTrace(acquired) ==
    EntitiesUpdate \o LightsUpdate \o ShadowPassSection \o ForwardSection(acquired)

-----------------------------------------------------------------------------
\* Reading a trace.

Ops(t, op) == {k \in 1 .. Len(t) : t[k].op = op}

Writes(t, buffer) == {k \in Ops(t, "write_buffer") : t[k].buffer = buffer}

Max(S) == CHOOSE x \in S : \A y \in S : y <= x

Min(S) == CHOOSE x \in S : \A y \in S : x <= y

\* queue.write_buffer: the content of `buffer` after the writes of t, `old`
\* being its content before.
BufferAfter(t, buffer, old) ==
    IF Writes(t, buffer) = {} THEN old ELSE t[Max(Writes(t, buffer))].value

Panicked(t) == Ops(t, "panic") # {}

-----------------------------------------------------------------------------
\* The state machine.

Configs == [width : 1 .. MaxDim, height : 1 .. MaxDim]

\* World::new: the state after construction, for a light set, an entity set
\* and a surface configuration.
Init ==
    /\ \E n \in 1 .. MaxLights : lights = LightSet(n)
    /\ \E n \in 0 .. MaxEntities : entities = EntitySet(n)
    /\ config \in Configs
    /\ forward_depth = create_depth_texture(config, -1)
    /\ show_shadows = FALSE
    /\ layer_number = 0
    /\ camera_position = 0
    /\ projection_view_buffer = Unwritten
    /\ trace = <<>>
    /\ pc = "idle"
    /\ shown = <<>>
    /\ resize_due = FALSE
    /\ first_frame = <<>>

\* World::render
Render(acquired) ==
    /\ pc = "idle"
    /\ trace' = RenderTrace(acquired)
    /\ projection_view_buffer' =
           BufferAfter(trace', "forward_pass.projection_view_buffer", projection_view_buffer)
    /\ pc' = IF Panicked(trace') THEN "panicked" ELSE "rendered"
    /\ UNCHANGED <<entities, lights, show_shadows, layer_number, camera_position,
                   forward_depth, config, shown, histories>>

\* render returns: encoder and frame, its locals, are gone.
RenderReturn ==
    /\ pc = "rendered"
    /\ pc' = "idle"
    /\ trace' = <<>>
    /\ UNCHANGED <<entities, lights, show_shadows, layer_number, camera_position,
                   forward_depth, config, projection_view_buffer, shown, histories>>

\* World::resize
Resize ==
    /\ pc = "idle"
    /\ projection_view_buffer' =
           get_projection_view_matrix(Ratio(config.width, config.height))
    /\ forward_depth' = create_depth_texture(config, forward_depth.id)
    /\ UNCHANGED <<entities, lights, show_shadows, layer_number, camera_position,
                   config, trace, pc, shown, histories>>

\* The application reconfigures the surface (context.config changes).
Configure(w, h) ==
    /\ pc = "idle"
    /\ config' = [width |-> w, height |-> h]
    /\ config' # config
    /\ UNCHANGED <<entities, lights, show_shadows, layer_number, camera_position,
                   forward_depth, projection_view_buffer, trace, pc, shown, histories>>

\* The pub selection fields are set by the input collaborator between frames.
SetShowShadows(b) ==
    /\ pc = "idle"
    /\ b # show_shadows
    /\ show_shadows' = b
    /\ UNCHANGED <<entities, lights, layer_number, camera_position, forward_depth,
                   config, projection_view_buffer, trace, pc, shown, histories>>

SetLayerNumber(n) ==
    /\ pc = "idle"
    /\ n # layer_number
    /\ layer_number' = n
    /\ UNCHANGED <<entities, lights, show_shadows, camera_position, forward_depth,
                   config, projection_view_buffer, trace, pc, shown, histories>>

SetCameraPosition(c) ==
    /\ pc = "idle"
    /\ c # camera_position
    /\ camera_position' = c
    /\ UNCHANGED <<entities, lights, show_shadows, layer_number, forward_depth,
                   config, projection_view_buffer, trace, pc, shown, histories>>

Next ==
    \/ \E acquired \in BOOLEAN : Render(acquired)
    \/ RenderReturn
    \/ Resize
    \/ \E w \in 1 .. MaxDim, h \in 1 .. MaxDim : Configure(w, h)
    \/ \E b \in BOOLEAN : SetShowShadows(b)
    \/ \E n \in 0 .. MaxLayer : SetLayerNumber(n)
    \/ \E c \in 0 .. MaxSelector : SetCameraPosition(c)

Spec == Init /\ [][Next]_vars

\* The same program with the history variable `shown` kept: when a render call
\* returns, the value show_shadows had in that call is remembered, so that a
\* state can tell what the previous frame was.  The surface is not
\* reconfigured here.
RenderReturnRemember ==
    /\ pc = "rendered"
    /\ pc' = "idle"
    /\ trace' = <<>>
    /\ shown' = <<show_shadows>>
    /\ UNCHANGED <<entities, lights, show_shadows, layer_number, camera_position,
                   forward_depth, config, projection_view_buffer, histories>>

NextToggle ==
    \/ \E acquired \in BOOLEAN : Render(acquired)
    \/ RenderReturnRemember
    \/ \E b \in BOOLEAN : SetShowShadows(b)
    \/ \E n \in 0 .. MaxLayer : SetLayerNumber(n)
    \/ \E c \in 0 .. MaxSelector : SetCameraPosition(c)

SpecToggle == Init /\ [][NextToggle]_vars

-----------------------------------------------------------------------------
\* Reading the passes of a trace.

\* The same program with the history variable `resize_due` kept: it is TRUE
\* from a change of the surface configuration until the next call of resize.
\* layer_number and camera_position stay as constructed here.

\* (mutant) resize uploads the matrix and keeps the depth target it has
ResizeKeepsDepth ==
    /\ pc = "idle"
    /\ projection_view_buffer' =
           get_projection_view_matrix(Ratio(config.width, config.height))
    /\ resize_due' = FALSE
    /\ UNCHANGED <<entities, lights, show_shadows, layer_number, camera_position,
                   forward_depth, config, trace, pc, shown, first_frame>>

\* World::resize
ResizeDone ==
    /\ pc = "idle"
    /\ projection_view_buffer' =
           get_projection_view_matrix(Ratio(config.width, config.height))
    /\ forward_depth' = create_depth_texture(config, forward_depth.id)
    /\ resize_due' = FALSE
    /\ UNCHANGED <<entities, lights, show_shadows, layer_number, camera_position,
                   config, trace, pc, shown, first_frame>>

\* The application reconfigures the surface.
ConfigureDue(w, h) ==
    /\ pc = "idle"
    /\ config' = [width |-> w, height |-> h]
    /\ config' # config
    /\ resize_due' = TRUE
    /\ UNCHANGED <<entities, lights, show_shadows, layer_number, camera_position,
                   forward_depth, projection_view_buffer, trace, pc, shown,
                   first_frame>>

NextResizeDue ==
    \/ \E acquired \in BOOLEAN : Render(acquired)
    \/ RenderReturn
    \/ ResizeDone
    \/ \E w \in 1 .. MaxDim, h \in 1 .. MaxDim : ConfigureDue(w, h)
    \/ \E b \in BOOLEAN : SetShowShadows(b)

SpecResizeDue == Init /\ [][NextResizeDue]_vars

-----------------------------------------------------------------------------
\* Reading a trace: passes and what is recorded in them.


Begins(t) == Ops(t, "begin_render_pass")

\* The end of the pass begun at position b.
PassEnd(t, b) ==
    IF \E e \in b + 1 .. Len(t) : t[e].op = "end_render_pass"
    THEN CHOOSE e \in b + 1 .. Len(t) :
            /\ t[e].op = "end_render_pass"
            /\ \A k \in b + 1 .. e - 1 : t[k].op # "end_render_pass"
    ELSE Len(t) + 1

\* The positions of the events recorded inside the pass begun at b.
InPass(t, b) == (b + 1) .. (PassEnd(t, b) - 1)

RECURSIVE Sorted(_)
Sorted(S) == IF S = {} THEN <<>> ELSE << Min(S) >> \o Sorted(S \ {Min(S)})

\* The position of the surface acquisition, where the forward section starts.
Acquisition(t) == CHOOSE a \in 1 .. Len(t) : t[a].op = "get_current_texture"

\* Passes by what they render to: a light's depth view, or the surface image.
ShadowViews == {lights[i].shadow_view : i \in DOMAIN lights}

TargetsLight(t, b) == t[b].depth_stencil_attachment.view \in ShadowViews

TargetsSurface(t, b) ==
    \E a \in 1 .. Len(t[b].color_attachments) :
        t[b].color_attachments[a].view = FrameView

\* Passes by where they are recorded: before or after the acquisition.
ShadowSubPasses(t) ==
    LET acquisition == Acquisition(t) IN Sorted({b \in Begins(t) : b < acquisition})

ForwardPasses(t) ==
    LET acquisition == Acquisition(t) IN {b \in Begins(t) : b > acquisition}

\* The entity draws of the pass begun at b, in recording order.
DrawsOf(t, b) ==
    LET d == Sorted({k \in InPass(t, b) : t[k].op = "draw_indexed"})
    IN [k \in 1 .. Len(d) |-> t[d[k]]]

DrawnEntities(t, b) ==
    LET draws == DrawsOf(t, b)
    IN [k \in 1 .. Len(draws) |-> draws[k].entity]

EntityIds == [k \in 1 .. Len(entities) |-> entities[k].id]

NumLights == Cardinality(DOMAIN lights)

-----------------------------------------------------------------------------
\* C1: in every frame, each light has a shadow sub-pass that is begun and
\* ended before the forward pass is begun, no pass that renders to a light's
\* depth view is begun or still open once the forward pass has begun, and a
\* frame that runs to its end has one encoder, on which every pass is
\* recorded, one forward pass, and one submit, of that encoder.
C1_ShadowBeforeForward ==
    /\ \A f \in Begins(trace) :
          TargetsSurface(trace, f) =>
             /\ \A i \in DOMAIN lights :
                   \E b \in Begins(trace) :
                      /\ trace[b].depth_stencil_attachment.view = lights[i].shadow_view
                      /\ PassEnd(trace, b) < f
             /\ \A b \in Begins(trace) :
                   TargetsLight(trace, b) => b < f /\ PassEnd(trace, b) < f
    /\ pc = "rendered" =>
          /\ Cardinality(Ops(trace, "create_command_encoder")) = 1
          /\ Cardinality(Ops(trace, "submit")) = 1
          /\ Cardinality({f \in Begins(trace) : TargetsSurface(trace, f)}) = 1
          /\ \A k \in Begins(trace) \cup Ops(trace, "submit") :
                \A c \in Ops(trace, "create_command_encoder") :
                   trace[k].encoder = trace[c].encoder /\ c < k

C1_Witness ==
    /\ pc = "rendered"
    /\ NumLights = 2
    /\ Len(entities) >= 1
    /\ \E f \in Begins(trace) : TargetsSurface(trace, f)

-----------------------------------------------------------------------------
\* C2: one render call begins exactly one shadow sub-pass per light; the
\* i-th of them targets the depth view of light i, so no two share a target;
\* each has no color attachment and depth operations Clear(1.0) / Store, and
\* every draw of a sub-pass is recorded after the begin that clears.
C2_ShadowSubPasses ==
    pc # "idle" =>
       LET sub == ShadowSubPasses(trace) IN
       /\ Len(sub) = NumLights
       /\ \A i \in DOMAIN lights :
             LET begin == trace[sub[i + 1]] IN
             /\ begin.depth_stencil_attachment.view = lights[i].shadow_view
             /\ begin.color_attachments = <<>>
             /\ begin.depth_stencil_attachment.load = "Clear(1.0)"
             /\ begin.depth_stencil_attachment.store = "Store"
       /\ \A i, j \in 1 .. Len(sub) :
             i # j => trace[sub[i]].depth_stencil_attachment.view
                      # trace[sub[j]].depth_stencil_attachment.view
       /\ LET inside == UNION {InPass(trace, sub[i]) : i \in 1 .. Len(sub)}
              acquisition == Acquisition(trace)
          IN \A d \in Ops(trace, "draw_indexed") : d < acquisition => d \in inside

C2_Witness ==
    /\ pc = "rendered"
    /\ NumLights = 2
    /\ Len(ShadowSubPasses(trace)) = 2
    /\ Len(entities) >= 1

\* C3: one render call records, in the sub-pass of every light, exactly one
\* indexed draw per entity, in sequence order (|E| x |L| shadow draws in all)
\* and, when show_shadows is false and the frame runs to its end, exactly one
\* indexed draw per entity in the forward pass, in sequence order.
C3_DrawCounts ==
    pc # "idle" =>
       LET sub == ShadowSubPasses(trace)
           draws == Ops(trace, "draw_indexed")
           acquisition == Acquisition(trace)
       IN
       /\ \A i \in 1 .. Len(sub) : DrawnEntities(trace, sub[i]) = EntityIds
       /\ Cardinality({d \in draws : d < acquisition}) = Len(entities) * NumLights
       /\ (pc = "rendered" /\ ~show_shadows) =>
             /\ \A f \in ForwardPasses(trace) : DrawnEntities(trace, f) = EntityIds
             /\ Cardinality({d \in draws : d > acquisition}) = Len(entities)

C3_Witness ==
    /\ pc = "rendered"
    /\ ~show_shadows
    /\ NumLights = 2
    /\ Len(entities) = 2
    /\ Cardinality(Ops(trace, "draw_indexed")) = 6

\* C4: every entity draw of the sub-pass of the light at position i has the
\* instance range [i, i+1), i being the position of the light whose depth
\* view is the target of the sub-pass; every entity draw of the forward pass
\* has the instance range [0, 1).
C4_InstanceRanges ==
    pc # "idle" =>
       /\ \A b \in Begins(trace) : \A i \in DOMAIN lights :
             trace[b].depth_stencil_attachment.view = lights[i].shadow_view =>
                LET draws == DrawsOf(trace, b)
                IN \A k \in 1 .. Len(draws) : draws[k].instances = <<i, i + 1>>
       /\ \A f \in ForwardPasses(trace) :
             LET draws == DrawsOf(trace, f)
             IN \A k \in 1 .. Len(draws) : draws[k].instances = <<0, 1>>

C4_Witness ==
    /\ pc = "rendered"
    /\ ~show_shadows
    /\ NumLights = 2
    /\ \E d \in Ops(trace, "draw_indexed") : trace[d].instances = <<1, 2>>
    /\ \E d \in Ops(trace, "draw_indexed") :
          d > Acquisition(trace) /\ trace[d].instances = <<0, 1>>

-----------------------------------------------------------------------------
\* The matrix the viewpoint selector stands for, for a surface of w x h.
SelectedMatrix(selector, w, h) ==
    CASE selector = 0 -> [kind |-> "perspective_look_at", aspect |-> Ratio(w, h)]
      [] selector = 1 -> lights[0].projection_view
      [] selector = 2 -> lights[1].projection_view
      [] OTHER        -> Identity

ForwardUploads(t) == Writes(t, "forward_pass.projection_view_buffer")

\* C5: whenever render uploads a projection-view matrix to the forward pass's
\* uniform buffer, it uploads once, and the matrix is the one camera_position
\* selects: 0 the default camera matrix for the surface's aspect ratio, which
\* holds nothing of any light; 1 lights[0].projection_view; 2
\* lights[1].projection_view; any other value the identity.  A frame that
\* runs to its end has uploaded, and leaves that matrix in the buffer.
C5_SelectedProjectionView ==
    /\ \A u \in ForwardUploads(trace) :
          /\ trace[u].value =
                SelectedMatrix(camera_position, config.width, config.height)
          /\ camera_position = 0 =>
                \A i \in DOMAIN lights : trace[u].value # lights[i].projection_view
    /\ pc = "rendered" =>
          /\ Cardinality(ForwardUploads(trace)) = 1
          /\ projection_view_buffer =
                SelectedMatrix(camera_position, config.width, config.height)

C5_Witness ==
    /\ pc = "rendered"
    /\ camera_position = 2
    /\ NumLights = 2
    /\ projection_view_buffer = lights[1].projection_view
    /\ projection_view_buffer # lights[0].projection_view

\* C6 (as claimed): render fails for no value of camera_position and
\* layer_number, whatever the number of lights: once the surface image is
\* acquired the call does not panic, and the frame is submitted and presented.
C6_RenderNeverFails ==
    (\E a \in Ops(trace, "get_current_texture") : trace[a].ok) =>
       /\ ~Panicked(trace)
       /\ Ops(trace, "submit") # {}
       /\ Ops(trace, "present") # {}

\* C7: a frame that runs to its end records exactly one of the two paths in
\* its forward render pass.  show_shadows: the debug pipeline is set, the
\* overlay is drawn, no entity is drawn and the forward pipeline and bind
\* group are not set.  Otherwise: the forward pipeline and bind group are set,
\* every entity is drawn and the overlay is not.  Either way the pass has the
\* surface image as its one color attachment and forward_depth as depth.
C7_ExactlyOnePath ==
    pc = "rendered" =>
       \A f \in ForwardPasses(trace) :
          LET has(e) == \E k \in InPass(trace, f) : trace[k] = e
              debug == /\ has(SetPipeline("shadow_material.shadow_debug_pipeline"))
                       /\ \E k \in InPass(trace, f) : trace[k].op = "draw"
              forward == /\ has(SetPipeline("forward_pass.pipeline"))
                         /\ has(SetBindGroup(0, "forward_pass.bind_group", <<>>))
                         /\ DrawnEntities(trace, f) = EntityIds
              any_debug == \E k \in InPass(trace, f) :
                              \/ trace[k].op = "draw"
                              \/ trace[k] = SetPipeline("shadow_material.shadow_debug_pipeline")
              any_forward == \E k \in InPass(trace, f) :
                                \/ trace[k].op = "draw_indexed"
                                \/ trace[k] = SetPipeline("forward_pass.pipeline")
                                \/ trace[k] = SetBindGroup(0, "forward_pass.bind_group", <<>>)
          IN /\ show_shadows => debug /\ ~any_forward
             /\ ~show_shadows => forward /\ ~any_debug
             /\ Len(trace[f].color_attachments) = 1
             /\ trace[f].color_attachments[1].view = FrameView
             /\ trace[f].depth_stencil_attachment.view = forward_depth

C7_Witness ==
    /\ pc = "rendered"
    /\ show_shadows
    /\ Len(entities) >= 1
    /\ \E k \in Ops(trace, "draw") : k > Acquisition(trace)

\* C8: when the acquisition of the surface image fails, the call ends there:
\* nothing is submitted, nothing is presented, the acquisition is not tried
\* again; and every call reaches submit and present once each, present after
\* submit, or reaches neither.
C8_AcquisitionFailureAborts ==
    pc # "idle" =>
       /\ (\E a \in Ops(trace, "get_current_texture") : ~trace[a].ok) =>
             /\ pc = "panicked"
             /\ Ops(trace, "submit") = {}
             /\ Ops(trace, "present") = {}
             /\ Cardinality(Ops(trace, "get_current_texture")) = 1
             /\ ForwardPasses(trace) = {}
       /\ \/ Ops(trace, "submit") = {} /\ Ops(trace, "present") = {}
          \/ /\ Cardinality(Ops(trace, "submit")) = 1
             /\ Cardinality(Ops(trace, "present")) = 1
             /\ Min(Ops(trace, "submit")) < Min(Ops(trace, "present"))

C8_Witness ==
    /\ pc = "panicked"
    /\ \E a \in Ops(trace, "get_current_texture") : ~trace[a].ok
    /\ Ops(trace, "submit") = {}

-----------------------------------------------------------------------------
\* The forward-pass entity draws of a frame that nothing but the entity
\* sequence determines: one draw per entity, in order, instance range [0, 1).
UntoggledForwardDraws ==
    [k \in 1 .. Len(entities) |->
        [op |-> "draw_indexed", entity |-> entities[k].id,
         indices |-> <<0, entities[k].index_count>>, base_vertex |-> 0,
         instances |-> <<0, 1>>]]

ForwardDraws(t) ==
    LET acquisition == Acquisition(t)
        d == Sorted({k \in Ops(t, "draw_indexed") : k > acquisition})
    IN [k \in 1 .. Len(d) |-> t[d[k]]]

\* A step that is a call of World::render.
RenderStep == pc = "idle" /\ pc' # "idle"

\* C9: a render call changes neither the entity sequence, nor the light
\* sequence, nor layer_number, nor camera_position, whatever show_shadows is;
\* and the frame rendered with show_shadows false right after a frame
\* rendered with show_shadows true records, when it runs to its end, the
\* forward-pass entity draws of a frame before which show_shadows was never
\* set.
C9_ToggleRestoresForward ==
    [][RenderStep =>
          /\ UNCHANGED <<entities, lights, layer_number, camera_position>>
          /\ (shown = <<TRUE>> /\ ~show_shadows /\ pc' = "rendered") =>
                ForwardDraws(trace') = UntoggledForwardDraws]_vars

C9_Witness ==
    /\ pc = "rendered"
    /\ shown = <<TRUE>>
    /\ ~show_shadows
    /\ Len(entities) = 2
    /\ Len(ForwardDraws(trace)) = 2

\* A step that is a call of World::resize: the only step between two idle
\* states that leaves the surface configuration and the selection alone.
ResizeStep == pc = "idle" /\ pc' = "idle" /\ UNCHANGED <<config, selection>>

\* C10: after World::resize with a surface configuration of W x H,
\* forward_depth is another depth target than before, of W x H and one layer,
\* and the forward pass's projection-view buffer holds the default camera
\* matrix for the aspect ratio W/H.
C10_ResizePostcondition ==
    [][ResizeStep =>
          /\ forward_depth'.id # forward_depth.id
          /\ forward_depth'.width = config.width
          /\ forward_depth'.height = config.height
          /\ forward_depth'.layers = 1
          /\ projection_view_buffer' =
                [kind |-> "perspective_look_at",
                 aspect |-> Ratio(config.width, config.height)]]_vars

C10_Witness ==
    /\ pc = "idle"
    /\ forward_depth.id = 1
    /\ forward_depth.width = 2
    /\ forward_depth.height = 1
    /\ config = [width |-> 2, height |-> 1]
    /\ projection_view_buffer = [kind |-> "perspective_look_at", aspect |-> <<2, 1>>]

-----------------------------------------------------------------------------
\* The order of the uniform updates and the recording within a call.
UpdatesBeforeRecording ==
    pc # "idle" =>
       LET entity_writes == Writes(trace, "entity_uniform_buf")
           light_writes == Writes(trace, "light_uniform_buf")
           encoders == Ops(trace, "create_command_encoder")
           recording == encoders \cup Begins(trace)
       IN /\ Cardinality(entity_writes) = Len(entities)
          /\ Cardinality(light_writes) = 1
          /\ Cardinality(encoders) = 1
          /\ \A e \in entity_writes : \A l \in light_writes : e < l
          /\ \A w \in entity_writes \cup light_writes :
                \A r \in recording : w < r

\* C11: in every frame the writes of the entity update come first, then the
\* write of the light update, then the creation of the command encoder, then
\* the passes: every entity's transform and the lights' data are written
\* before the encoder exists and before any pass is begun.
C11_UpdatesBeforeRecording == []UpdatesBeforeRecording

C11_Witness ==
    /\ pc = "rendered"
    /\ Len(entities) = 2
    /\ Cardinality(Writes(trace, "entity_uniform_buf")) = 2
    /\ Cardinality(Begins(trace)) >= 2

-----------------------------------------------------------------------------
\* The debug overlay draws of a trace.
DebugDraws(t) == Ops(t, "draw")

\* C12: in every frame in which the debug overlay is drawn, before that draw
\* is recorded the orthographic projection-view matrix of the surface's half
\* extents has been written to shadow_material.projection_view_buffer and
\* the layer index to shadow_material.layer_num_buffer, and the last layer
\* index written before the draw is the layer_number of that frame.
C12_DebugUniformsWritten ==
    pc # "idle" =>
       LET matrix_writes == Writes(trace, "shadow_material.projection_view_buffer")
           layer_writes == Writes(trace, "shadow_material.layer_num_buffer")
       IN \A d \in DebugDraws(trace) :
             /\ \E w \in matrix_writes :
                   /\ w < d
                   /\ trace[w].value =
                         [kind |-> "orthographic_look_at",
                          half_width |-> Ratio(config.width, 2),
                          half_height |-> Ratio(config.height, 2)]
             /\ \E w \in layer_writes :
                   /\ w < d
                   /\ \A v \in layer_writes : v < d => v <= w
                   /\ trace[w].value = layer_number

C12_Witness ==
    /\ pc = "rendered"
    /\ show_shadows
    /\ layer_number = 1
    /\ DebugDraws(trace) # {}
    /\ \E w \in Writes(trace, "shadow_material.layer_num_buffer") : trace[w].value = 1

-----------------------------------------------------------------------------
\* Where the forward pass's bind group is bound, and where the debug path
\* starts (its pipeline is set).
ForwardBindGroupBound(t) ==
    {k \in Ops(t, "set_bind_group") : t[k].group = "forward_pass.bind_group"}

DebugPathStart(t) ==
    {k \in Ops(t, "set_pipeline") :
        t[k].pipeline = "shadow_material.shadow_debug_pipeline"}

\* C13 (as claimed): in a frame rendered with show_shadows true the forward
\* pass's bind group is not bound and none of its resources, the
\* projection-view buffer among them, is written.
C13_DebugFrameWritesNoForwardResource ==
    (pc # "idle" /\ show_shadows) =>
       /\ ForwardBindGroupBound(trace) = {}
       /\ ForwardUploads(trace) = {}

\* C13 (amended): in a frame rendered with show_shadows true the forward
\* pass's bind group is not bound, and nothing is written to any buffer once
\* the debug pipeline is set; the forward pass's projection-view buffer is
\* written at most once, by the upload that precedes the choice of the path,
\* and exactly once in a frame that runs to its end.
C13_DebugPathLeavesForwardBindGroup ==
    (pc # "idle" /\ show_shadows) =>
       /\ ForwardBindGroupBound(trace) = {}
       /\ Cardinality(ForwardUploads(trace)) <= 1
       /\ \A s \in DebugPathStart(trace) :
             \A w \in Ops(trace, "write_buffer") : w < s
       /\ pc = "rendered" =>
             /\ Cardinality(ForwardUploads(trace)) = 1
             /\ DebugPathStart(trace) # {}

C13_Witness ==
    /\ pc = "rendered"
    /\ show_shadows
    /\ DebugPathStart(trace) # {}
    /\ ForwardUploads(trace) # {}

-----------------------------------------------------------------------------
\* How many of the positions in S lie in the first n events.
CountUpTo(S, n) == Cardinality({k \in S : k <= n})

\* The order of recording, submit and present within a call.
FrameOrder ==
    pc # "idle" =>
       LET submits == Ops(trace, "submit")
           presents == Ops(trace, "present")
           acquisition == Acquisition(trace)
       IN /\ \A n \in submits \cup presents :
                CountUpTo(submits, n) - CountUpTo(presents, n) \in {0, 1}
          /\ Cardinality(submits) = Cardinality(presents)
          /\ pc = "rendered" =>
                /\ Cardinality(submits) = 1
                /\ Cardinality(ForwardPasses(trace)) = 1
                /\ \A b \in Begins(trace) :
                      b < acquisition => PassEnd(trace, b) < acquisition
                /\ \A f \in ForwardPasses(trace) : \A s \in submits :
                      /\ PassEnd(trace, f) <= Len(trace)
                      /\ PassEnd(trace, f) < s
                      /\ \A c \in Ops(trace, "create_command_encoder") :
                            trace[s].encoder = trace[c].encoder
                /\ \A s \in submits : \A p \in presents :
                      /\ s < p
                      /\ p = Len(trace)
                      /\ trace[acquisition].ok
                      /\ trace[p].surface_image = FrameView.surface_image

\* C14: a frame that runs to its end records the shadow sub-passes, then the
\* forward or debug pass, then submits the encoder exactly once, after the
\* forward pass has ended, then presents the acquired image exactly once,
\* after the submit and as the call's last step.  At every submit and
\* present the presents so far are the submits so far or one less, and a call ends
\* with as many presents as submits: calls being sequential, submits and
\* presents alternate one for one over any sequence of calls.
C14_FrameOrder == []FrameOrder

C14_Witness ==
    /\ pc = "rendered"
    /\ NumLights = 2
    /\ show_shadows
    /\ Ops(trace, "submit") # {}
    /\ Ops(trace, "present") # {}

-----------------------------------------------------------------------------
\* C15: the forward pass of a frame, whichever path it then takes, has one
\* color attachment, the surface image, cleared to (0.1, 0.2, 0.3, 1.0) and
\* stored, and the world's forward_depth as depth attachment, cleared to 1.0
\* and discarded; a frame that runs to its end has such a pass.
C15_ForwardAttachments ==
    pc # "idle" =>
       LET passes == ForwardPasses(trace) IN
       /\ pc = "rendered" => passes # {}
       /\ \A f \in passes :
             LET color == trace[f].color_attachments
                 depth == trace[f].depth_stencil_attachment
             IN /\ Len(color) = 1
                /\ color[1].view.surface_image = "frame"
                /\ color[1].load = <<"Clear", "r=0.1", "g=0.2", "b=0.3", "a=1.0">>
                /\ color[1].store = "Store"
                /\ depth.view = forward_depth
                /\ depth.load = "Clear(1.0)"
                /\ depth.store = "Discard"

C15_Witness ==
    /\ pc = "rendered"
    /\ show_shadows
    /\ DebugDraws(trace) # {}
    /\ \E f \in ForwardPasses(trace) :
          trace[f].depth_stencil_attachment.store = "Discard"

-----------------------------------------------------------------------------
\* The bytes an attribute occupies in a vertex.
AttributeBytes(a) == a.offset .. (a.offset + VertexFormatSize(a.format) - 1)

\* The layout of a vertex, and the slot render binds vertex buffers to.
VertexLayout ==
    LET layout == get_vertex_buffer_layout
        a == layout.attributes
    IN /\ layout.step_mode = "Vertex"
       /\ Len(a) = 2
       /\ \A k \in 1 .. Len(a) :
             /\ a[k].format = "Sint8x4"
             /\ VertexFormatSize(a[k].format) = 4
             /\ a[k].shader_location = k - 1
       /\ a[1].offset = 0
       /\ a[2].offset = 4
       /\ layout.array_stride = 8
       /\ AttributeBytes(a[1]) \cap AttributeBytes(a[2]) = {}
       /\ AttributeBytes(a[1]) \cup AttributeBytes(a[2]) = 0 .. (layout.array_stride - 1)
       /\ \A k \in Ops(trace, "set_vertex_buffer") : trace[k].slot = 0

\* C16: get_vertex_buffer_layout is a per-vertex layout of exactly two
\* attributes of format Sint8x4, four bytes each: attribute 0 at shader
\* location 0 and offset 0, attribute 1 at shader location 1 and offset 4;
\* the array stride is 8 bytes; the two attributes do not overlap and
\* together cover every byte of a vertex.  Slot 0, which the layout
\* describes, is the only vertex-buffer slot render binds.
C16_VertexLayout == []VertexLayout

C16_Witness ==
    /\ pc = "rendered"
    /\ Ops(trace, "set_vertex_buffer") # {}
    /\ Len(get_vertex_buffer_layout.attributes) = 2
    /\ get_vertex_buffer_layout.attributes[2].offset = 4

-----------------------------------------------------------------------------
\* The uniform buffers the control thread writes during a frame.
FrameUniformBuffers ==
    {"entity_uniform_buf", "light_uniform_buf",
     "shadow_material.projection_view_buffer",
     "shadow_material.layer_num_buffer",
     "forward_pass.projection_view_buffer"}

WritesInOrder ==
    pc # "idle" =>
       LET writes == Ops(trace, "write_buffer")
           submits == Ops(trace, "submit")
           presents == Ops(trace, "present")
       IN /\ \A w \in writes : trace[w].buffer \in FrameUniformBuffers
          /\ \A w \in writes : \A s \in submits : w < s
          /\ \A s \in submits : \A p \in presents :
                \A k \in s + 1 .. p - 1 : trace[k].op # "write_buffer"
          /\ pc = "rendered" =>
                /\ submits # {}
                /\ \A b \in FrameUniformBuffers \ {"entity_uniform_buf"} :
                      Writes(trace, b) # {}
                /\ entities # <<>> => Writes(trace, "entity_uniform_buf") # {}

\* C17: every uniform-buffer write of a frame (entity transforms, light
\* data, the shadow material's matrix and layer index, the forward pass's
\* matrix) is issued before the frame's submit, none between submit and
\* present, and the content of the forward pass's projection-view buffer
\* changes in render and resize steps only.
C17_WritesBeforeSubmit ==
    /\ []WritesInOrder
    /\ [][projection_view_buffer' # projection_view_buffer
            => RenderStep \/ ResizeStep]_vars

C17_Witness ==
    /\ pc = "rendered"
    /\ Len(entities) = 2
    /\ Ops(trace, "submit") # {}
    /\ \A b \in FrameUniformBuffers : Writes(trace, b) # {}
    /\ projection_view_buffer.kind = "light_projection_view"

-----------------------------------------------------------------------------
\* Width and height of a texture view or of a surface configuration.
Extent(x) == <<x.width, x.height>>

\* With no resize due, forward_depth has the surface's size, and so has the
\* depth target of the forward pass of a frame.
DepthMatchesSurface ==
    ~resize_due =>
       /\ Extent(forward_depth) = Extent(config)
       /\ pc # "idle" =>
             \A f \in ForwardPasses(trace) :
                /\ Extent(trace[f].depth_stencil_attachment.view) = Extent(config)
                /\ Extent(trace[f].depth_stencil_attachment.view)
                      = Extent(trace[f].color_attachments[1].view)

\* C18: when resize is called after every change of the surface
\* configuration and before the next render, the depth target of every
\* forward pass has the width and height of the surface configuration; a
\* render call leaves forward_depth as it is and attaches it to its forward
\* pass; and a configuration change made when the two agree leaves
\* forward_depth with dimensions other than the surface's until resize is
\* called, which a render call in between then records.
C18_DepthFollowsResize ==
    /\ []DepthMatchesSurface
    /\ [][RenderStep =>
             /\ forward_depth' = forward_depth
             /\ \A f \in ForwardPasses(trace') :
                   trace'[f].depth_stencil_attachment.view = forward_depth]_vars
    /\ [][(config' # config /\ ~resize_due) =>
             /\ resize_due'
             /\ forward_depth' = forward_depth
             /\ Extent(forward_depth') # Extent(config')]_vars

C18_Witness ==
    /\ pc = "rendered"
    /\ ~resize_due
    /\ forward_depth.id = 1
    /\ Extent(config) = <<2, 1>>
    /\ \E f \in ForwardPasses(trace) :
          Extent(trace[f].depth_stencil_attachment.view) = <<2, 1>>

-----------------------------------------------------------------------------
\* The matrices World::resize can have left in the buffer.
ResizeMatrices ==
    {get_projection_view_matrix(Ratio(c.width, c.height)) : c \in Configs}

\* C19: a frame that is submitted has uploaded to the forward pass's
\* projection-view buffer before its submit, so that what the buffer held
\* before the call (nothing, or a matrix written by resize) is overwritten;
\* what it holds at the submit, and after the call, is the matrix that
\* camera_position, the surface configuration and the lights select, and
\* with camera_position other than 0 that is no matrix resize writes.
C19_SubmittedMatrix ==
    [][(RenderStep /\ pc' = "rendered") =>
          LET submit == Min(Ops(trace', "submit"))
              selected == SelectedMatrix(camera_position, config.width, config.height)
          IN /\ \E u \in ForwardUploads(trace') : u < submit
             /\ \A u \in ForwardUploads(trace') :
                   /\ u < submit
                   /\ trace'[u].value = selected
             /\ projection_view_buffer' = selected
             /\ camera_position # 0 =>
                   projection_view_buffer' \notin ResizeMatrices]_vars

C19_Witness ==
    /\ pc = "rendered"
    /\ camera_position = 2
    /\ forward_depth.id = 1
    /\ Ops(trace, "submit") # {}
    /\ projection_view_buffer = lights[1].projection_view

-----------------------------------------------------------------------------
\* What a call records from the creation of its encoder to the acquisition
\* of the surface image: the shadow sub-passes with their targets, load and
\* store operations, and their draws with their instance ranges.
ShadowRecording(t) ==
    LET c == Min(Ops(t, "create_command_encoder"))
    IN SubSeq(t, c, Acquisition(t) - 1)

\* The selection a world is constructed with.
ConstructedSelection == <<FALSE, 0, 0>>

\* The same program with the history variable `first_frame` kept: when the
\* first call of render made with the constructed selection returns, what it
\* recorded for the shadow pass is remembered.  Entities and lights are the
\* same in every frame; the surface is not reconfigured here.
RenderReturnFrames ==
    /\ pc = "rendered"
    /\ pc' = "idle"
    /\ trace' = <<>>
    /\ first_frame' = IF first_frame = <<>> /\ selection = ConstructedSelection
                      THEN << ShadowRecording(trace) >>
                      ELSE first_frame
    /\ UNCHANGED <<entities, lights, show_shadows, layer_number, camera_position,
                   forward_depth, config, projection_view_buffer, shown,
                   resize_due>>

NextFrames ==
    \/ \E acquired \in BOOLEAN : Render(acquired)
    \/ RenderReturnFrames
    \/ \E b \in BOOLEAN : SetShowShadows(b)
    \/ \E n \in 0 .. MaxLayer : SetLayerNumber(n)
    \/ \E c \in 0 .. MaxSelector : SetCameraPosition(c)

SpecFrames == Init /\ [][NextFrames]_vars

\* Every frame records for the shadow pass what the world recorded with the
\* constructed selection.
SameShadowRecording ==
    (pc # "idle" /\ first_frame # <<>>) =>
       ShadowRecording(trace) = first_frame[1]

\* C20: whatever show_shadows, layer_number and camera_position are, a call
\* of render records for the shadow pass what a world of the same entities
\* and lights records with the constructed selection (so any two such worlds
\* record the same sub-passes and draws); and a call of render leaves
\* show_shadows, layer_number, camera_position, forward_depth and the
\* lengths of the entity and light sequences as they are.
C20_ShadowIndependentOfSelection ==
    /\ []SameShadowRecording
    /\ [][RenderStep =>
             /\ show_shadows' = show_shadows
             /\ layer_number' = layer_number
             /\ camera_position' = camera_position
             /\ forward_depth' = forward_depth
             /\ Len(entities') = Len(entities)
             /\ DOMAIN lights' = DOMAIN lights]_vars

C20_Witness ==
    /\ pc = "rendered"
    /\ first_frame # <<>>
    /\ show_shadows
    /\ layer_number = 1
    /\ camera_position = 2
    /\ Len(entities) = 2
    /\ Len(ShadowSubPasses(trace)) = 2
    /\ ShadowRecording(trace) = first_frame[1]

=============================================================================
